---------------------------- MODULE Spec2Model ----------------------------
(***************************************************************************)
(* The retrieval-augmented response pipeline of core/rag.py, with the      *)
(* helpers of core/llm_utils.py and the provider registry of               *)
(* core/llm_service.py.                                                    *)
(*                                                                         *)
(* A text (a Python str) is a sequence of symbols.  Text the program       *)
(* inspects character by character (the query, the generated text, the     *)
(* keyword tables) is spelled one character per symbol; a literal the      *)
(* program only copies around (a header, a fixed message, a template       *)
(* part, a retrieved passage) is one symbol.  A dict is a function from    *)
(* its keys, so "key in d" is key \in DOMAIN d.                            *)
(***************************************************************************)
EXTENDS Integers, Sequences, FiniteSets, TLC

-----------------------------------------------------------------------------
(* Python str primitives *)

UPPER == <<"A","B","C","D","E","F","G","H","I","J","K","L","M","N","O","P","Q","R","S","T","U","V","W","X","Y","Z">>

LOWER == <<"a","b","c","d","e","f","g","h","i","j","k","l","m","n","o","p","q","r","s","t","u","v","w","x","y","z">>

DIGITS == <<"0","1","2","3","4","5","6","7","8","9">>

\* the characters str.split(), str.strip() and the regex class \s treat as blank
Whitespace == {" ", "\t", "\n", "\r"}

Range(s) == {s[i] : i \in DOMAIN s}

UpperSet == Range(UPPER)

\* the lower-case letter of each upper-case letter
LowerOf == [c \in UpperSet |-> LOWER[CHOOSE i \in DOMAIN UPPER : UPPER[i] = c]]

\* one character of str.lower()
LowerChar(c) == IF c \in UpperSet THEN LowerOf[c] ELSE c

\* str.lower()
Lower(s) == [i \in DOMAIN s |-> LowerChar(s[i])]

\* the operator "needle in hay" on two str
Contains(hay, needle) ==
  \E i \in 0..(Len(hay) - Len(needle)) :
     \A j \in 1..Len(needle) : hay[i + j] = needle[j]

\* any(keyword in text for keyword in keywords)
AnyIn(keywords, text) == \E keyword \in keywords : Contains(text, keyword)

RECURSIVE SkipWhile(_, _, _)
\* the first position at or after i whose character is outside S (Len+1 at the end)
SkipWhile(t, i, S) ==
  IF i > Len(t) \/ t[i] \notin S THEN i ELSE SkipWhile(t, i + 1, S)

RECURSIVE SkipUntil(_, _, _)
\* the first position at or after i whose character is in S (Len+1 at the end)
SkipUntil(t, i, S) ==
  IF i > Len(t) \/ t[i] \in S THEN i ELSE SkipUntil(t, i + 1, S)

RECURSIVE LastNonBlank(_, _)
LastNonBlank(t, j) ==
  IF j < 1 \/ t[j] \notin Whitespace THEN j ELSE LastNonBlank(t, j - 1)

\* str.strip()
Strip(t) ==
  LET a == SkipWhile(t, 1, Whitespace)
      b == LastNonBlank(t, Len(t))
  IN  IF a > b THEN <<>> ELSE SubSeq(t, a, b)

RECURSIVE CountTokens(_, _)
\* len(t.split()) counted from position i: the maximal runs of non-blank characters
CountTokens(t, i) ==
  LET a == SkipWhile(t, i, Whitespace)
  IN  IF a > Len(t) THEN 0 ELSE 1 + CountTokens(t, SkipUntil(t, a, Whitespace))

\* len(query.split())
SplitLen(t) == CountTokens(t, 1)

RECURSIVE Join(_, _)
\* sep.join(parts)
Join(sep, parts) ==
  IF parts = <<>> THEN <<>>
  ELSE IF Len(parts) = 1 THEN parts[1]
  ELSE parts[1] \o sep \o Join(sep, Tail(parts))

-----------------------------------------------------------------------------
(* Keyword tables of llm_utils.py, verbatim *)

\* classify_intent: sales intent keywords
sales_keywords ==
  { <<"b","u","y">>,
    <<"p","u","r","c","h","a","s","e">>,
    <<"p","r","i","c","e">>,
    <<"c","o","s","t">>,
    <<"o","r","d","e","r">>,
    <<"p","r","o","d","u","c","t">>,
    <<"c","o","f","f","e","e">>,
    <<"b","e","a","n","s">>,
    <<"a","v","a","i","l","a","b","l","e">>,
    <<"s","t","o","c","k">>,
    <<"c","a","t","a","l","o","g">>,
    <<"s","h","o","p">>,
    <<"s","t","o","r","e">>,
    <<"w","h","o","l","e","s","a","l","e">>,
    <<"r","e","t","a","i","l">>,
    <<"d","i","s","c","o","u","n","t">>,
    <<"o","f","f","e","r">>,
    <<"p","r","o","m","o">>,
    <<"n","e","w">>,
    <<"r","e","c","o","m","m","e","n","d","a","t","i","o","n">>,
    <<"s","u","g","g","e","s","t">> }

\* classify_intent: refund intent keywords
refund_keywords ==
  { <<"r","e","f","u","n","d">>,
    <<"r","e","t","u","r","n">>,
    <<"e","x","c","h","a","n","g","e">>,
    <<"c","a","n","c","e","l">>,
    <<"m","o","n","e","y"," ","b","a","c","k">>,
    <<"r","e","p","l","a","c","e","m","e","n","t">>,
    <<"d","a","m","a","g","e","d">>,
    <<"d","e","f","e","c","t","i","v","e">>,
    <<"w","r","o","n","g">>,
    <<"m","i","s","t","a","k","e">>,
    <<"c","o","m","p","l","a","i","n","t">>,
    <<"i","s","s","u","e">> }

\* classify_intent: support intent keywords
support_keywords ==
  { <<"h","e","l","p">>,
    <<"s","u","p","p","o","r","t">>,
    <<"c","o","n","t","a","c","t">>,
    <<"h","o","u","r","s">>,
    <<"l","o","c","a","t","i","o","n">>,
    <<"s","t","o","r","e">>,
    <<"d","e","l","i","v","e","r","y">>,
    <<"s","h","i","p","p","i","n","g">>,
    <<"p","a","y","m","e","n","t">>,
    <<"a","c","c","o","u","n","t">>,
    <<"l","o","g","i","n">>,
    <<"r","e","g","i","s","t","e","r">> }

\* is_safe_query: banned terms
banned_words ==
  { <<"k","i","l","l">>,
    <<"m","u","r","d","e","r">>,
    <<"h","a","r","m">>,
    <<"d","i","e">>,
    <<"b","o","m","b">>,
    <<"w","e","a","p","o","n">>,
    <<"s","t","a","b">>,
    <<"s","u","i","c","i","d","e">> }

\* should_resolve_product_context: deictic / comparison keywords
product_context_keywords ==
  { <<"t","h","i","s">>,
    <<"t","h","a","t">>,
    <<"i","t">>,
    <<"t","h","e"," ","o","n","e">>,
    <<"s","a","m","e">>,
    <<"d","i","f","f","e","r","e","n","t">>,
    <<"a","n","o","t","h","e","r">>,
    <<"p","r","e","v","i","o","u","s">>,
    <<"l","a","s","t">>,
    <<"e","a","r","l","i","e","r">>,
    <<"m","e","n","t","i","o","n","e","d">>,
    <<"d","i","s","c","u","s","s","e","d">>,
    <<"c","o","m","p","a","r","e">>,
    <<"v","s">>,
    <<"v","e","r","s","u","s">>,
    <<"d","i","f","f","e","r","e","n","c","e"," ","b","e","t","w","e","e","n">>,
    <<"s","i","m","i","l","a","r">>,
    <<"l","i","k","e"," ","t","h","a","t">>,
    <<"a","l","t","e","r","n","a","t","i","v","e">> }

\* should_resolve_product_context: possessive-order / reference phrases
reference_keywords ==
  { <<"t","h","i","s"," ","p","r","o","d","u","c","t">>,
    <<"t","h","a","t"," ","c","o","f","f","e","e">>,
    <<"t","h","e"," ","b","e","a","n","s">>,
    <<"s","a","m","e"," ","o","r","d","e","r">>,
    <<"m","y"," ","o","r","d","e","r">>,
    <<"m","y"," ","c","o","f","f","e","e">>,
    <<"m","y"," ","p","u","r","c","h","a","s","e">>,
    <<"w","h","a","t"," ","I"," ","b","o","u","g","h","t">> }

\* should_use_chat_history: continuation keywords
context_keywords ==
  { <<"c","o","n","t","i","n","u","e">>,
    <<"a","l","s","o">>,
    <<"a","n","d">>,
    <<"w","h","a","t"," ","a","b","o","u","t">>,
    <<"h","o","w"," ","a","b","o","u","t">>,
    <<"y","e","s">>,
    <<"n","o">>,
    <<"o","k","a","y">>,
    <<"s","u","r","e">>,
    <<"t","h","a","n","k","s">>,
    <<"t","h","a","n","k"," ","y","o","u">>,
    <<"p","r","e","v","i","o","u","s">>,
    <<"e","a","r","l","i","e","r">>,
    <<"b","e","f","o","r","e">>,
    <<"l","a","s","t"," ","t","i","m","e">>,
    <<"a","g","a","i","n">>,
    <<"s","t","i","l","l">>,
    <<"m","o","r","e">>,
    <<"e","l","s","e">>,
    <<"o","t","h","e","r">> }

-----------------------------------------------------------------------------
(* Intent classification, safety filter, context heuristics *)

\* classify_intent with the refund test placed before the sales test
classify_intent_refund_first(query) ==
  LET query_lower == Lower(query)
  IN  IF AnyIn(refund_keywords, query_lower) THEN "refund"
      ELSE IF AnyIn(sales_keywords, query_lower) THEN "sales"
      ELSE IF AnyIn(support_keywords, query_lower) THEN "support"
      ELSE "general"

\* classify_intent(query)
classify_intent(query) ==
  LET query_lower == Lower(query)
  IN  IF AnyIn(sales_keywords, query_lower) THEN "sales"
      ELSE IF AnyIn(refund_keywords, query_lower) THEN "refund"
      ELSE IF AnyIn(support_keywords, query_lower) THEN "support"
      ELSE "general"

\* is_safe_query without the lower-casing of the query
is_safe_query_case_sensitive(query) == ~ AnyIn(banned_words, query)

\* is_safe_query(query)
is_safe_query(query) == ~ AnyIn(banned_words, Lower(query))

\* the threshold of "short queries often need context"
ShortQueryTokens == 3

\* should_use_chat_history with "<" in place of "<=" in the short-query test
should_use_chat_history_lt(query, intent) ==
  \/ SplitLen(query) < ShortQueryTokens
  \/ AnyIn(context_keywords, Lower(query))
  \/ intent = "refund"

\* should_use_chat_history without the lower-casing of the query
should_use_chat_history_case_sensitive(query, intent) ==
  \/ SplitLen(query) <= ShortQueryTokens
  \/ AnyIn(context_keywords, query)
  \/ intent = "refund"

\* should_use_chat_history(query, intent)
should_use_chat_history(query, intent) ==
  \/ SplitLen(query) <= ShortQueryTokens
  \/ AnyIn(context_keywords, Lower(query))
  \/ intent = "refund"

\* should_resolve_product_context(query, intent)
should_resolve_product_context(query, intent) ==
  LET query_lower == Lower(query)
  IN  \/ intent = "sales"
         /\ AnyIn(product_context_keywords \cup reference_keywords, query_lower)
      \/ intent = "refund" /\ AnyIn(reference_keywords, query_lower)
      \/ AnyIn(product_context_keywords, query_lower)

\* get_agent_name with the label of the support agent on the refund entry
get_agent_name_refund_as_support(intent) ==
  CASE intent = "sales"   -> "Sales Specialist"
    [] intent = "refund"  -> "Support Agent"
    [] intent = "support" -> "Support Agent"
    [] intent = "general" -> "Coffee Assistant"
    [] OTHER              -> "Assistant"

\* get_agent_name(intent)
get_agent_name(intent) ==
  CASE intent = "sales"   -> "Sales Specialist"
    [] intent = "refund"  -> "Customer Service Agent"
    [] intent = "support" -> "Support Agent"
    [] intent = "general" -> "Coffee Assistant"
    [] OTHER              -> "Assistant"

\* get_chat_history_context that hands back the last turn of the history
get_chat_history_context_last_turn(chat_history) == <<"user: do you sell beans?">>

\* get_chat_history_context(chat_history): a stub, always ""
get_chat_history_context(chat_history) == <<>>

\* resolve_product_reference(query, chat_history): a stub, always ""
resolve_product_reference(query, chat_history) == <<>>

\* format_rag_context with the product section ahead of the history section
format_rag_context_product_first(retrieved_docs, chat_context, product_context) ==
  LET part1 == IF retrieved_docs # <<>>
               THEN <<<<"Retrieved Information:">>>> \o retrieved_docs ELSE <<>>
      part2 == IF chat_context # <<>>
               THEN << <<"\n", "Previous Conversation:">>, chat_context >> ELSE <<>>
      part3 == IF product_context # <<>>
               THEN << <<"\n", "Product Information:">>, product_context >> ELSE <<>>
  IN  Join(<<"\n">>, part1 \o part3 \o part2)

\* format_rag_context(retrieved_docs, chat_context, product_context); the
\* literals "\nPrevious Conversation:" and "\nProduct Information:" are a
\* newline followed by the header
format_rag_context(retrieved_docs, chat_context, product_context) ==
  LET part1 == IF retrieved_docs # <<>>
               THEN <<<<"Retrieved Information:">>>> \o retrieved_docs ELSE <<>>
      part2 == IF chat_context # <<>>
               THEN << <<"\n", "Previous Conversation:">>, chat_context >> ELSE <<>>
      part3 == IF product_context # <<>>
               THEN << <<"\n", "Product Information:">>, product_context >> ELSE <<>>
  IN  Join(<<"\n">>, part1 \o part2 \o part3)

base_safety ==
  <<"You are a helpful AI assistant. Never respond to questions that are violent, harmful, or illegal.">>

\* the intent-specific part of a template before {context}
TemplateHead(intent) ==
  CASE intent = "sales"   -> <<"sales specialist guidelines and response format; Context:">>
    [] intent = "refund"  -> <<"refund specialist guidelines; Context:">>
    [] intent = "support" -> <<"support specialist guidelines; Context:">>
    [] OTHER              -> <<"general assistant guidelines; Context:">>

\* the label before {query}
TemplateQuestion(intent) ==
  IF intent \in {"sales", "refund", "support"}
  THEN <<"Customer Question: ">> ELSE <<"Question: ">>

\* the closing label of a template
TemplateTail(intent) ==
  CASE intent = "sales"   -> <<"Sales Response:">>
    [] intent = "refund"  -> <<"Customer Service Response:">>
    [] intent = "support" -> <<"Support Response:">>
    [] OTHER              -> <<"Response:">>

\* get_specialized_prompt(intent, context, query)
get_specialized_prompt(intent, context, query) ==
  base_safety \o TemplateHead(intent) \o context
     \o TemplateQuestion(intent) \o query \o TemplateTail(intent)

-----------------------------------------------------------------------------
(* Structured extraction: the marker regex, float(), extract_product_info *)

\* the class [0-9.]
PriceChars == Range(DIGITS) \cup {"."}

\* the position i of t holds the literal lit
HasLit(t, i, lit) ==
  /\ i + Len(lit) - 1 <= Len(t)
  /\ SubSeq(t, i, i + Len(lit) - 1) = lit

NoMatch == [ok |-> FALSE]

\* re.match of product_pattern at position i:
\*   \*\*([^*]+)\*\*\s*\(ID:\s*([^)]+)\)\s*-\s*\$([0-9.]+)
\* read left to right, one operator per piece of the pattern.  Every
\* quantifier is greedy; the only place where backtracking changes the
\* outcome is \s*([^)]+) when nothing but blanks precedes the ")": the group
\* then takes the last blank.

\* ([0-9.]+) from p11; the name is t[n1..n2-1], the id t[g2..p7-1]
MatchPrice(t, n1, n2, g2, p7, p11) ==
  LET p12 == SkipWhile(t, p11, PriceChars)
  IN  IF p12 = p11 THEN NoMatch
      ELSE [ok    |-> TRUE,
            name  |-> SubSeq(t, n1, n2 - 1),
            id    |-> SubSeq(t, g2, p7 - 1),
            price |-> SubSeq(t, p11, p12 - 1),
            end   |-> p12]

\* \$ at p10
MatchDollar(t, n1, n2, g2, p7, p10) ==
  IF ~ HasLit(t, p10, <<"$">>) THEN NoMatch
  ELSE MatchPrice(t, n1, n2, g2, p7, p10 + 1)

\* -\s* at p9
MatchDash(t, n1, n2, g2, p7, p9) ==
  IF ~ HasLit(t, p9, <<"-">>) THEN NoMatch
  ELSE MatchDollar(t, n1, n2, g2, p7, SkipWhile(t, p9 + 1, Whitespace))

\* \s*([^)]+)\)\s* : the blanks ran from p5 to p6 - 1, the run without ")"
\* from p6 to p7 - 1
MatchClose(t, n1, n2, p5, p6, p7) ==
  LET g2 == IF p7 > p6 THEN p6 ELSE p6 - 1
  IN  IF p7 > Len(t) \/ g2 < p5 THEN NoMatch
      ELSE MatchDash(t, n1, n2, g2, p7, SkipWhile(t, p7 + 1, Whitespace))

\* \(ID: at p4
MatchIdTag(t, n1, n2, p4) ==
  IF ~ HasLit(t, p4, <<"(","I","D",":">>) THEN NoMatch
  ELSE MatchClose(t, n1, n2, p4 + 4,
                  SkipWhile(t, p4 + 4, Whitespace),
                  SkipUntil(t, SkipWhile(t, p4 + 4, Whitespace), {")"}))

\* ([^*]+)\*\*\s* : the run without "*" went from n1 to n2 - 1
MatchName(t, n1, n2) ==
  IF n2 = n1 \/ ~ HasLit(t, n2, <<"*","*">>) THEN NoMatch
  ELSE MatchIdTag(t, n1, n2, SkipWhile(t, n2 + 2, Whitespace))

\* \*\* at i
MatchAt(t, i) ==
  IF ~ HasLit(t, i, <<"*","*">>) THEN NoMatch
  ELSE MatchName(t, i + 2, SkipUntil(t, i + 2, {"*"}))

RECURSIVE FindAllFrom(_, _)
\* re.findall(product_pattern, t): leftmost non-overlapping matches, in order
FindAllFrom(t, i) ==
  IF i > Len(t) THEN <<>>
  ELSE LET m == MatchAt(t, i)
       IN  IF m.ok THEN <<m>> \o FindAllFrom(t, m.end)
           ELSE FindAllFrom(t, i + 1)

FindAll(t) == FindAllFrom(t, 1)

DigitValue(c) == (CHOOSE i \in DOMAIN DIGITS : DIGITS[i] = c) - 1

\* float(tok) accepts a token over [0-9.] exactly when it has at most one "."
\* and at least one digit; anything else raises ValueError
FloatOk(tok) ==
  /\ Cardinality({i \in DOMAIN tok : tok[i] = "."}) <= 1
  /\ \E i \in DOMAIN tok : tok[i] # "."

RECURSIVE DigitsValue(_)
DigitsValue(ds) ==
  IF ds = <<>> THEN 0
  ELSE 10 * DigitsValue(SubSeq(ds, 1, Len(ds) - 1)) + DigitValue(ds[Len(ds)])

RECURSIVE Pow10(_)
Pow10(n) == IF n = 0 THEN 1 ELSE 10 * Pow10(n - 1)

\* the number of decimals a price is kept to
PriceDecimals == 3

\* float(tok) of an accepted token, as a count of 10^-PriceDecimals units
\* (4.50 and 4.5 are the same number, 4500)
FloatValue(tok) ==
  LET dot  == SkipUntil(tok, 1, {"."})
      ip   == SubSeq(tok, 1, dot - 1)
      fp   == SubSeq(tok, dot + 1, Len(tok))
      fpk  == SubSeq(fp, 1, IF Len(fp) < PriceDecimals THEN Len(fp) ELSE PriceDecimals)
  IN  DigitsValue(ip) * Pow10(PriceDecimals)
        + DigitsValue(fpk) * Pow10(PriceDecimals - Len(fpk))

\* the product dict built from one match
ProductOf(m) ==
  LET clean_product_id == Strip(m.id)
  IN  [id        |-> clean_product_id,
       name      |-> Strip(m.name),
       price     |-> FloatValue(Strip(m.price)),
       buy_link  |-> <<"/product/">> \o clean_product_id,
       image_url |-> <<"/images/product_">> \o clean_product_id \o <<".jpg">>]

Returned(v) == [raised |-> FALSE, value |-> v]

Raised(detail) == [raised |-> TRUE, detail |-> detail]

\* str(ValueError) of float() on a rejected token
FloatError(tok) == <<"could not convert string to float: '">> \o tok \o <<"'">>

\* extract_product_info(response): the loop raises at the first match whose
\* price float() rejects; otherwise one product per match, in order
extract_product_info(response) ==
  LET matches == FindAll(response)
      bad     == {k \in DOMAIN matches : ~ FloatOk(Strip(matches[k].price))}
  IN  IF bad # {}
      THEN Raised(FloatError(Strip(matches[CHOOSE k \in bad : \A j \in bad : k <= j].price)))
      ELSE LET products == [k \in DOMAIN matches |-> ProductOf(matches[k])]
           IN  Returned([products       |-> products,
                         total_products |-> Len(products),
                         response_type  |-> "sales",
                         has_products   |-> Len(products) > 0])

EmptyDict == [k \in {} |-> TRUE]

\* format_sales_response without the test of the intent: extraction runs for
\* every intent
format_sales_response_any_intent(response, intent) ==
  LET product_info == extract_product_info(response)
  IN  IF product_info.raised THEN product_info
      ELSE Returned([text     |-> response,
                     intent   |-> intent,
                     agent    |-> get_agent_name(intent),
                     products |-> product_info.value.products,
                     metadata |-> [total_products |-> product_info.value.total_products,
                                   has_products   |-> product_info.value.has_products]])

\* format_sales_response(response, intent)
format_sales_response(response, intent) ==
  IF intent = "sales"
  THEN LET product_info == extract_product_info(response)
       IN  IF product_info.raised THEN product_info
           ELSE Returned([text     |-> response,
                          intent   |-> intent,
                          agent    |-> get_agent_name(intent),
                          products |-> product_info.value.products,
                          metadata |-> [total_products |-> product_info.value.total_products,
                                        has_products   |-> product_info.value.has_products]])
  ELSE Returned([text     |-> response,
                 intent   |-> intent,
                 agent    |-> get_agent_name(intent),
                 products |-> <<>>,
                 metadata |-> EmptyDict])

-----------------------------------------------------------------------------
(* Inputs and collaborators *)

\* the longest query, in phrases of Phrases
MaxPhrases == 2

\* the longest generated text, in segments of Segments
MaxSegs == 2

\* the most passages the Retriever hands back in the model (the code asks for k)
MaxDocs == 1

\* the phrases queries are made of: a sales keyword, a refund keyword, a
\* support keyword followed by a deictic word, a banned term inside a longer
\* capitalised word, and two neutral words with two blanks between them
Phrases ==
  { <<"p","r","i","c","e">>,
    <<"R","e","f","u","n","d">>,
    <<"h","e","l","p"," ","i","t">>,
    <<"W","e","a","p","o","n","s">>,
    <<"h","i"," "," ","y","o","u">> }

SeqsUpTo(S, n) == UNION {[1..k -> S] : k \in 0..n}

\* the queries of the model: one to MaxPhrases phrases with a blank between
Queries == {Join(<<" ">>, ws) : ws \in SeqsUpTo(Phrases, MaxPhrases) \ {<<>>}}

\* the pieces generated text is made of: a well-formed marker, a marker
\* written without the blank after "ID:" and with one before ")", a marker
\* whose price is followed by the full stop of the sentence, and plain text
\* that ends in a newline
Segments ==
  { <<"*","*","L","a","t","t","e","*","*"," ","(","I","D",":"," ","1","2",")"," ","-"," ","$","4",".","5","0">>,
    <<"*","*","M","o","c","h","a","*","*"," ","(","I","D",":","7"," ",")"," ","-"," ","$","3">>,
    <<"*","*","L","a","t","t","e","*","*"," ","(","I","D",":"," ","1","2",")"," ","-"," ","$","4",".","5","0",".">>,
    <<" ","t","o","d","a","y","!","\n">> }

RECURSIVE Concat(_)
Concat(ss) == IF ss = <<>> THEN <<>> ELSE ss[1] \o Concat(Tail(ss))

\* what a Generator backend may answer
RawTexts == {Concat(ss) : ss \in SeqsUpTo(Segments, MaxSegs)}

\* str(e) of the exceptions a Generator backend may raise; an exception
\* raised without a message has str(e) = ""
GeneratorErrors == { <<"429 quota exceeded">>, <<>> }

Passages == { <<"Ethiopian Yirgacheffe, product_id 12, $4.50">> }

\* what retriever.get_relevant_documents may hand back
RetrieverResults == SeqsUpTo(Passages, MaxDocs)

\* str(e) of the exceptions the embedding model or the vector store may raise
RetrieverErrors == { <<"vector store unavailable">> }

Providers == {"local", "openai", "gemini", "azure"}

\* LLMService._initialize_llm: the message of the exception raised when the
\* backend of a provider cannot be constructed
ConfigError(provider) ==
  CASE provider = "local"  -> <<"Local model not found: ~/Desktop/deve/llm_models/mistral/mistral-7b-instruct-v0.2.Q4_K_M.gguf">>
    [] provider = "openai" -> <<"Missing OPENAI_API_KEY environment variable">>
    [] provider = "gemini" -> <<"Missing GEMINI_API_KEY environment variable">>
    [] OTHER               -> <<"Unsupported LLM provider: ">> \o <<provider>>

\* the providers _initialize_llm knows
Supported == {"local", "openai", "gemini"}

\* config.MAX_TOKENS
MAX_TOKENS == 1000

\* config.TEMPERATURE, in tenths (0.7)
TEMPERATURE == 7

\* the generation parameters a backend is called under: the local backend
\* gets max_tokens and temperature with every call, the openai backend got
\* them when ChatOpenAI was constructed, the gemini backend is constructed by
\* GenerativeModel(model_name=...) and called by generate_content(prompt),
\* with neither
GenerationParams(provider) ==
  IF provider = "gemini"
  THEN EmptyDict
  ELSE [max_tokens |-> MAX_TOKENS, temperature |-> TEMPERATURE]

-----------------------------------------------------------------------------
(* RAGSystem.generate_response as a state machine *)

VARIABLES
  pc,                     \* the stage the run is at
  query,                  \* the query text
  llm_provider,           \* RAGSystem.llm_provider
  retriever,              \* RAGSystem.retriever: "None" or "ready"
  instances,              \* LLMService._instances: provider -> absent/created/initialized
  intent,
  use_chat_history,
  use_product_resolution,
  retrieved_docs,
  chat_context,
  product_context,
  formatted_context,
  specialized_prompt,
  response,               \* the text the Generator returned
  formatted_response,
  result,                 \* the dict returned to the caller
  exception,              \* str(e) of the exception raised to the caller
  calls,                  \* the collaborator invocations of this run, in order
  failures,               \* the exceptions of this run: [stage, detail = str(e)]
  tpc,                    \* per caller of llm_service: the statement it is at
  tprovider,              \* per caller: the provider argument of its call
  tself,                  \* per caller: the object LLMService(provider=...) gave it
  tcalls,                 \* per caller: the calls it has finished
  cls_instances,          \* LLMService._instances: provider -> object
  heap,                   \* the LLMService objects: attributes llm, initialized
  backends,               \* per provider: the backends constructed so far
  uses,                   \* the inference calls made: provider, object, backend
  processed,              \* test_rag_system: the questions processed so far
  successful_responses,   \* test_rag_system: results["successful_responses"]
  failed_responses,       \* test_rag_system: results["failed_responses"]
  composed_results,       \* the composed results among the questions processed
  chat_messages,          \* table chat_messages, in insertion order
  rag_chat_history,       \* chat endpoints: the history handed to advanced_rag_query
  users,                  \* table users
  cart_items,             \* table cart_items, in insertion order
  added_since_set,        \* per cart row: the quantities added since it was created or set
  request,                \* the last request an endpoint handled
  http_status             \* the status of the response to it

vars == <<pc, query, llm_provider, retriever, instances, intent, use_chat_history,
          use_product_resolution, retrieved_docs, chat_context, product_context,
          formatted_context, specialized_prompt, response, formatted_response,
          result, exception, calls, failures,
          tpc, tprovider, tself, tcalls, cls_instances, heap, backends, uses,
          processed, successful_responses, failed_responses, composed_results,
          chat_messages, rag_chat_history, users, cart_items, added_since_set,
          request, http_status>>

\* the state of llm_service.py seen by concurrent callers
service_vars == <<tpc, tprovider, tself, tcalls, cls_instances, heap, backends, uses>>

\* the tallies of scripts/test_rag_system.py
script_vars == <<processed, successful_responses, failed_responses, composed_results>>

\* the tables of database/db_service.py and the last exchange of main.py
db_vars == <<chat_messages, rag_chat_history, users, cart_items, added_since_set>>

http_vars == <<request, http_status>>

app_vars == <<script_vars, db_vars, http_vars>>

\* the state of one run of the pipeline, the abstract registry aside
run_vars == <<pc, query, llm_provider, retriever, intent, use_chat_history,
              use_product_resolution, retrieved_docs, chat_context, product_context,
              formatted_context, specialized_prompt, response, formatted_response,
              result, exception, calls, failures>>

locals == <<intent, use_chat_history, use_product_resolution, retrieved_docs,
            chat_context, product_context, formatted_context, specialized_prompt,
            response, formatted_response>>

None == "None"

Failure(stage, detail) == [stage |-> stage, detail |-> detail]

\* the stages that raised in this run
FailedStages == {f.stage : f \in failures}

BlockedMessage == <<"I cannot provide information on harmful or dangerous topics.">>

ApologyMessage == <<"I apologize, but I encountered an error while processing your request.">>

\* the blocked dict without its "products" key
BlockedResult_no_products ==
  [response |-> BlockedMessage,
   intent   |-> "blocked",
   agent    |-> "Safety Filter",
   sources  |-> <<>>,
   metadata |-> EmptyDict,
   error    |-> <<"Unsafe query blocked">>]

\* the blocked dict without its "error" key
BlockedResult_no_error ==
  [response |-> BlockedMessage,
   intent   |-> "blocked",
   agent    |-> "Safety Filter",
   sources  |-> <<>>,
   products |-> <<>>,
   metadata |-> EmptyDict]

\* the dict returned when the safety check rejects the query
BlockedResult ==
  [response |-> BlockedMessage,
   intent   |-> "blocked",
   agent    |-> "Safety Filter",
   sources  |-> <<>>,
   products |-> <<>>,
   metadata |-> EmptyDict,
   error    |-> <<"Unsafe query blocked">>]

\* the error dict with str(e) written into the apology
ErrorResult_interpolated(detail) ==
  [response |-> ApologyMessage \o detail,
   intent   |-> "error",
   agent    |-> "Error Handler",
   sources  |-> <<>>,
   error    |-> detail]

\* the dict returned by the except clause of generate_response
ErrorResult(detail) ==
  [response |-> ApologyMessage,
   intent   |-> "error",
   agent    |-> "Error Handler",
   sources  |-> <<>>,
   error    |-> detail]

\* the composed dict with the decision flags taken from the texts obtained
ComposedResult_flags_from_texts ==
  [response               |-> formatted_response.text,
   intent                 |-> intent,
   agent                  |-> get_agent_name(intent),
   sources                |-> retrieved_docs,
   context                |-> formatted_context,
   products               |-> formatted_response.products,
   metadata               |-> formatted_response.metadata,
   chat_history_used      |-> chat_context # <<>>,
   product_context_used   |-> product_context # <<>>,
   chat_context_actual    |-> chat_context # <<>>,
   product_context_actual |-> product_context # <<>>,
   intelligent_decisions  |-> TRUE]

\* the keys of the dict returned at the end of the try block
ComposedResultKeys ==
  {"response", "intent", "agent", "sources", "context", "products", "metadata",
   "chat_history_used", "product_context_used", "chat_context_actual",
   "product_context_actual", "intelligent_decisions"}

\* the dict returned at the end of the try block
ComposedResult ==
  [response               |-> formatted_response.text,
   intent                 |-> intent,
   agent                  |-> get_agent_name(intent),
   sources                |-> retrieved_docs,
   context                |-> formatted_context,
   products               |-> formatted_response.products,
   metadata               |-> formatted_response.metadata,
   chat_history_used      |-> use_chat_history,
   product_context_used   |-> use_product_resolution,
   chat_context_actual    |-> chat_context # <<>>,
   product_context_actual |-> product_context # <<>>,
   intelligent_decisions  |-> TRUE]

\* the default k of retrieve_relevant_documents
DefaultK == 5

\* the concurrent callers of llm_service.py
Threads == {"q1", "q2"}

\* the most calls one caller makes
MaxCalls == 1

\* the LLMService objects that can come to exist: one per call at most
ObjIds == 1..(Cardinality(Threads) * MaxCalls)

\* an object super().__new__(cls) has not handed out yet
Unallocated == [allocated |-> FALSE, llm |-> 0, gemini_client |-> 0, initialized |-> FALSE]

\* the test script before its first question, empty tables, no request yet
AppIdle ==
  /\ processed = 0
  /\ successful_responses = 0
  /\ failed_responses = 0
  /\ composed_results = 0
  /\ chat_messages = <<>>
  /\ rag_chat_history = <<>>
  /\ users = {}
  /\ cart_items = <<>>
  /\ added_since_set = <<>>
  /\ request = [endpoint |-> "none"]
  /\ http_status = 0

\* llm_service.py before any call: _instances = {}.  An object reference, a
\* backend reference and a dict entry that are None or absent are written 0.
ServiceIdle ==
  /\ tpc = [t \in Threads |-> "idle"]
  /\ tprovider = [t \in Threads |-> None]
  /\ tself = [t \in Threads |-> 0]
  /\ tcalls = [t \in Threads |-> 0]
  /\ cls_instances = [p \in Providers |-> 0]
  /\ heap = [o \in ObjIds |-> Unallocated]
  /\ backends = [p \in Providers |-> 0]
  /\ uses = {}

Init ==
  /\ pc = "construct"
  /\ query \in Queries
  /\ llm_provider \in Providers
  /\ retriever = None
  /\ \E st \in {"absent", "initialized"} :
        /\ st = "initialized" => llm_provider \in Supported
        /\ instances = [p \in Providers |-> IF p = llm_provider THEN st ELSE "absent"]
  /\ intent = None
  /\ use_chat_history = None
  /\ use_product_resolution = None
  /\ retrieved_docs = <<>>
  /\ chat_context = <<>>
  /\ product_context = <<>>
  /\ formatted_context = <<>>
  /\ specialized_prompt = <<>>
  /\ response = <<>>
  /\ formatted_response = EmptyDict
  /\ result = EmptyDict
  /\ exception = None
  /\ calls = <<>>
  /\ failures = {}
  /\ ServiceIdle
  /\ AppIdle

\* advanced_rag_query: RAGSystem(llm_provider) runs _initialize_retriever,
\* which re-raises whatever the embedding model or the vector store raises
Construct ==
  /\ pc = "construct"
  /\ \/ /\ retriever' = "ready"
        /\ pc' = "safety"
        /\ UNCHANGED <<exception, failures>>
     \/ /\ retriever' = None
        /\ pc' = "raised"
        /\ \E detail \in RetrieverErrors :
              /\ exception' = detail
              /\ failures' = failures \cup {Failure("retriever_init", detail)}
  /\ UNCHANGED <<query, llm_provider, instances, locals, result, calls>>
  /\ UNCHANGED <<service_vars, app_vars>>

\* the safety check that only records the rejection and lets the run go on
SafetyCheck_log_only ==
  /\ pc = "safety"
  /\ pc' = "classify"
  /\ UNCHANGED result
  /\ UNCHANGED <<query, llm_provider, retriever, instances, locals, exception,
                 calls, failures>>
  /\ UNCHANGED <<service_vars, app_vars>>

\* generate_response, the safety check
SafetyCheck ==
  /\ pc = "safety"
  /\ IF ~ is_safe_query(query)
     THEN /\ result' = BlockedResult
          /\ pc' = "done"
     ELSE /\ pc' = "classify"
          /\ UNCHANGED result
  /\ UNCHANGED <<query, llm_provider, retriever, instances, locals, exception,
                 calls, failures>>
  /\ UNCHANGED <<service_vars, app_vars>>

\* step 1
Classify ==
  /\ pc = "classify"
  /\ intent' = classify_intent(query)
  /\ pc' = "decide"
  /\ UNCHANGED <<query, llm_provider, retriever, instances, use_chat_history,
                 use_product_resolution, retrieved_docs, chat_context,
                 product_context, formatted_context, specialized_prompt, response,
                 formatted_response, result, exception, calls, failures>>
  /\ UNCHANGED <<service_vars, app_vars>>

\* steps 2 and 3, with step 4 left out: the run goes on without retrieval
DecideContext_skips_retrieval ==
  /\ pc = "decide"
  /\ use_chat_history' = should_use_chat_history(query, intent)
  /\ use_product_resolution' = should_resolve_product_context(query, intent)
  /\ pc' = "resolve"
  /\ UNCHANGED <<query, llm_provider, retriever, instances, intent, retrieved_docs,
                 chat_context, product_context, formatted_context,
                 specialized_prompt, response, formatted_response, result,
                 exception, calls, failures>>
  /\ UNCHANGED <<service_vars, app_vars>>

\* steps 2 and 3
DecideContext ==
  /\ pc = "decide"
  /\ use_chat_history' = should_use_chat_history(query, intent)
  /\ use_product_resolution' = should_resolve_product_context(query, intent)
  /\ pc' = "retrieve"
  /\ UNCHANGED <<query, llm_provider, retriever, instances, intent, retrieved_docs,
                 chat_context, product_context, formatted_context,
                 specialized_prompt, response, formatted_response, result,
                 exception, calls, failures>>
  /\ UNCHANGED <<service_vars, app_vars>>

\* step 4 without the try/except of retrieve_relevant_documents: an exception
\* of the Retriever reaches the except clause of generate_response
Retrieve_uncaught ==
  /\ pc = "retrieve"
  /\ calls' = Append(calls, [op |-> "retriever", k |-> DefaultK])
  /\ \/ /\ \E docs \in RetrieverResults : retrieved_docs' = docs
        /\ pc' = "resolve"
        /\ UNCHANGED <<failures, result>>
     \/ /\ \E detail \in RetrieverErrors :
              /\ failures' = failures \cup {Failure("retriever", detail)}
              /\ result' = ErrorResult(detail)
        /\ pc' = "done"
        /\ UNCHANGED retrieved_docs
  /\ UNCHANGED <<query, llm_provider, retriever, instances, intent,
                 use_chat_history, use_product_resolution, chat_context,
                 product_context, formatted_context, specialized_prompt, response,
                 formatted_response, exception>>
  /\ UNCHANGED <<service_vars, app_vars>>

\* step 4 made conditional on the intent: only a sales query is retrieved for
Retrieve_only_for_sales ==
  /\ pc = "retrieve"
  /\ IF intent = "sales"
     THEN /\ calls' = Append(calls, [op |-> "retriever", k |-> DefaultK])
          /\ \/ /\ \E docs \in RetrieverResults : retrieved_docs' = docs
                /\ UNCHANGED failures
             \/ /\ retrieved_docs' = <<>>
                /\ \E detail \in RetrieverErrors :
                      failures' = failures \cup {Failure("retriever", detail)}
     ELSE UNCHANGED <<calls, retrieved_docs, failures>>
  /\ pc' = "resolve"
  /\ UNCHANGED <<query, llm_provider, retriever, instances, intent,
                 use_chat_history, use_product_resolution, chat_context,
                 product_context, formatted_context, specialized_prompt, response,
                 formatted_response, result, exception>>
  /\ UNCHANGED <<service_vars, app_vars>>

\* step 4, retrieve_relevant_documents(query): an exception of the Retriever
\* is logged and becomes the empty list
Retrieve ==
  /\ pc = "retrieve"
  /\ calls' = Append(calls, [op |-> "retriever", k |-> DefaultK])
  /\ \/ /\ \E docs \in RetrieverResults : retrieved_docs' = docs
        /\ UNCHANGED failures
     \/ /\ retrieved_docs' = <<>>
        /\ \E detail \in RetrieverErrors :
              failures' = failures \cup {Failure("retriever", detail)}
  /\ pc' = "resolve"
  /\ UNCHANGED <<query, llm_provider, retriever, instances, intent,
                 use_chat_history, use_product_resolution, chat_context,
                 product_context, formatted_context, specialized_prompt, response,
                 formatted_response, result, exception>>
  /\ UNCHANGED <<service_vars, app_vars>>

\* steps 5 and 6
ResolveContext ==
  /\ pc = "resolve"
  /\ chat_context' = IF use_chat_history
                     THEN get_chat_history_context(None) ELSE <<>>
  /\ product_context' = IF use_product_resolution
                        THEN resolve_product_reference(query, None) ELSE <<>>
  /\ calls' = calls
                \o (IF use_chat_history THEN <<[op |-> "history"]>> ELSE <<>>)
                \o (IF use_product_resolution THEN <<[op |-> "resolver"]>> ELSE <<>>)
  /\ pc' = "assemble"
  /\ UNCHANGED <<query, llm_provider, retriever, instances, intent,
                 use_chat_history, use_product_resolution, retrieved_docs,
                 formatted_context, specialized_prompt, response,
                 formatted_response, result, exception, failures>>
  /\ UNCHANGED <<service_vars, app_vars>>

\* step 7
AssembleContext ==
  /\ pc = "assemble"
  /\ formatted_context' = format_rag_context(retrieved_docs, chat_context, product_context)
  /\ pc' = "route"
  /\ UNCHANGED <<query, llm_provider, retriever, instances, intent,
                 use_chat_history, use_product_resolution, retrieved_docs,
                 chat_context, product_context, specialized_prompt, response,
                 formatted_response, result, exception, calls, failures>>
  /\ UNCHANGED <<service_vars, app_vars>>

\* step 8
RoutePrompt ==
  /\ pc = "route"
  /\ specialized_prompt' = get_specialized_prompt(intent, formatted_context, query)
  /\ calls' = Append(calls, [op |-> "prompt", intent |-> intent])
  /\ pc' = "generate"
  /\ UNCHANGED <<query, llm_provider, retriever, instances, intent,
                 use_chat_history, use_product_resolution, retrieved_docs,
                 chat_context, product_context, formatted_context, response,
                 formatted_response, result, exception, failures>>
  /\ UNCHANGED <<service_vars, app_vars>>

\* step 9, first half, with the provider constructed outside the try block:
\* the exception of _initialize_llm leaves generate_response
LookupProvider_outside_try ==
  /\ pc = "generate"
  /\ IF instances[llm_provider] = "initialized"
     THEN /\ pc' = "invoke"
          /\ UNCHANGED <<instances, exception, failures>>
     ELSE \/ /\ llm_provider \in Supported
             /\ instances' = [instances EXCEPT ![llm_provider] = "initialized"]
             /\ pc' = "invoke"
             /\ UNCHANGED <<exception, failures>>
          \/ /\ instances' = [instances EXCEPT ![llm_provider] = "created"]
             /\ failures' = failures
                  \cup {Failure("provider_construction", ConfigError(llm_provider))}
             /\ exception' = ConfigError(llm_provider)
             /\ pc' = "raised"
  /\ UNCHANGED <<query, llm_provider, retriever, locals, result, calls>>
  /\ UNCHANGED <<service_vars, app_vars>>

\* step 9, first half: _call_llm_with_prompt picks call_<provider>_llm, whose
\* LLMService(provider=...) looks the instance up in _instances (__new__
\* registers a new one) and, when it has no "initialized" attribute yet, runs
\* _initialize_llm, which raises when the backend cannot be constructed.  The
\* call sits inside the try block of generate_response.
LookupProvider ==
  /\ pc = "generate"
  /\ IF instances[llm_provider] = "initialized"
     THEN /\ pc' = "invoke"
          /\ UNCHANGED <<instances, result, failures>>
     ELSE \/ /\ llm_provider \in Supported
             /\ instances' = [instances EXCEPT ![llm_provider] = "initialized"]
             /\ pc' = "invoke"
             /\ UNCHANGED <<result, failures>>
          \/ /\ instances' = [instances EXCEPT ![llm_provider] = "created"]
             /\ failures' = failures
                  \cup {Failure("provider_construction", ConfigError(llm_provider))}
             /\ result' = ErrorResult(ConfigError(llm_provider))
             /\ pc' = "done"
  /\ UNCHANGED <<query, llm_provider, retriever, locals, exception, calls>>
  /\ UNCHANGED <<service_vars, app_vars>>

\* step 9, second half, with a second attempt after a failure of the backend
InvokeGenerator_retry ==
  /\ pc = "invoke"
  /\ calls' = Append(calls, [op |-> "generator", provider |-> llm_provider,
                             params |-> GenerationParams(llm_provider)])
  /\ \/ /\ \E raw \in RawTexts : response' = Strip(raw)
        /\ pc' = "extract"
        /\ UNCHANGED <<result, failures>>
     \/ /\ \E detail \in GeneratorErrors :
              /\ failures' = failures \cup {Failure("generator", detail)}
              /\ IF "generator" \in FailedStages
                 THEN result' = ErrorResult(detail) /\ pc' = "done"
                 ELSE UNCHANGED result /\ pc' = "invoke"
        /\ UNCHANGED response
     \/ /\ pc' = "waiting"
        /\ UNCHANGED <<response, result, failures>>
  /\ UNCHANGED <<query, llm_provider, retriever, instances, intent,
                 use_chat_history, use_product_resolution, retrieved_docs,
                 chat_context, product_context, formatted_context,
                 specialized_prompt, formatted_response, exception>>
  /\ UNCHANGED <<service_vars, app_vars>>

\* step 9, second half: LLMService.generate_response hands the prompt to the
\* backend; the text comes back stripped, an exception is logged and re-raised
\* into the except clause of RAGSystem.generate_response.  Neither
\* _generate_local_response nor _generate_langchain_response nor the caller
\* bounds the wait: a backend that never answers leaves the run inside the
\* call ("waiting"), and no step of the program leads out of it.
InvokeGenerator ==
  /\ pc = "invoke"
  /\ calls' = Append(calls, [op |-> "generator", provider |-> llm_provider,
                             params |-> GenerationParams(llm_provider)])
  /\ \/ /\ \E raw \in RawTexts : response' = Strip(raw)
        /\ pc' = "extract"
        /\ UNCHANGED <<result, failures>>
     \/ /\ \E detail \in GeneratorErrors :
              /\ result' = ErrorResult(detail)
              /\ failures' = failures \cup {Failure("generator", detail)}
        /\ pc' = "done"
        /\ UNCHANGED response
     \/ /\ pc' = "waiting"
        /\ UNCHANGED <<response, result, failures>>
  /\ UNCHANGED <<query, llm_provider, retriever, instances, intent,
                 use_chat_history, use_product_resolution, retrieved_docs,
                 chat_context, product_context, formatted_context,
                 specialized_prompt, formatted_response, exception>>
  /\ UNCHANGED <<service_vars, app_vars>>

\* step 10: format_sales_response; a ValueError of float() leaves
\* extract_product_info and reaches the except clause
Extract ==
  /\ pc = "extract"
  /\ LET r == format_sales_response(response, intent)
     IN  IF r.raised
         THEN /\ result' = ErrorResult(r.detail)
              /\ failures' = failures \cup {Failure("extraction", r.detail)}
              /\ pc' = "done"
              /\ UNCHANGED formatted_response
         ELSE /\ formatted_response' = r.value
              /\ pc' = "compose"
              /\ UNCHANGED <<result, failures>>
  /\ UNCHANGED <<query, llm_provider, retriever, instances, intent,
                 use_chat_history, use_product_resolution, retrieved_docs,
                 chat_context, product_context, formatted_context,
                 specialized_prompt, response, exception, calls>>
  /\ UNCHANGED <<service_vars, app_vars>>

\* step 11 and the return of the try block
Compose ==
  /\ pc = "compose"
  /\ result' = ComposedResult
  /\ pc' = "done"
  /\ UNCHANGED <<query, llm_provider, retriever, instances, locals, exception,
                 calls, failures>>
  /\ UNCHANGED <<service_vars, app_vars>>

Next ==
  \/ Construct
  \/ SafetyCheck
  \/ Classify
  \/ DecideContext
  \/ Retrieve
  \/ ResolveContext
  \/ AssembleContext
  \/ RoutePrompt
  \/ LookupProvider
  \/ InvokeGenerator
  \/ Extract
  \/ Compose

Spec == Init /\ [][Next]_vars

-----------------------------------------------------------------------------
(* The context heuristics and the context assembler on their whole domain *)

\* the longest query of the heuristics' inputs, in phrases
MaxUnitPhrases == 2

\* the most passages handed to the assembler
MaxUnitDocs == 2

\* the phrases of the heuristics' inputs: two neutral words, a capitalised
\* continuation keyword, a capitalised deictic keyword, a reference phrase in
\* mixed case, and the reference phrase the table spells with a capital I
UnitPhrases ==
  { <<"h","i"," "," ","y","o","u">>,
    <<"A","l","s","o">>,
    <<"T","h","i","s">>,
    <<"M","y"," ","O","r","d","e","r">>,
    <<"w","h","a","t"," ","I"," ","b","o","u","g","h","t">> }

UnitQueries == {Join(<<" ">>, ws) : ws \in SeqsUpTo(UnitPhrases, MaxUnitPhrases) \ {<<>>}}

\* the intent argument: the four classified intents and two other labels
IntentLabels == {"sales", "refund", "support", "general", "blocked", "error"}

UnitPassages ==
  { <<"Ethiopian Yirgacheffe, product_id 12, $4.50">>,
    <<"Colombian Supremo, product_id 7, $3">> }

\* the history and product texts handed to the assembler: empty, blank, a text
HistoryTexts == { <<>>, <<" ">>, <<"user: do you sell beans?">> }

ProductTexts == { <<>>, <<"Latte (ID: 12)">> }

\* a call of should_use_chat_history and should_resolve_product_context on
\* any query and intent, or of format_rag_context on any three arguments
UnitInit ==
  /\ \/ /\ pc = "decide"
        /\ query \in UnitQueries
        /\ intent \in IntentLabels
        /\ retrieved_docs = <<>>
        /\ chat_context = <<>>
        /\ product_context = <<>>
     \/ /\ pc = "assemble"
        /\ query = <<"h","i">>
        /\ intent = "general"
        /\ retrieved_docs \in SeqsUpTo(UnitPassages, MaxUnitDocs)
        /\ chat_context \in HistoryTexts
        /\ product_context \in ProductTexts
  /\ llm_provider = "gemini"
  /\ retriever = "ready"
  /\ instances = [p \in Providers |-> "absent"]
  /\ use_chat_history = None
  /\ use_product_resolution = None
  /\ formatted_context = <<>>
  /\ specialized_prompt = <<>>
  /\ response = <<>>
  /\ formatted_response = EmptyDict
  /\ result = EmptyDict
  /\ exception = None
  /\ calls = <<>>
  /\ failures = {}
  /\ ServiceIdle
  /\ AppIdle

UnitNext ==
  \/ DecideContext
  \/ AssembleContext

UnitSpec == UnitInit /\ [][UnitNext]_vars

-----------------------------------------------------------------------------
(* llm_service.py under concurrent callers, one statement at a time *)

\* the registry as the pipeline sees it
RegistryView(reg, objs) ==
  [p \in Providers |->
     IF reg[p] = 0 THEN "absent"
     ELSE IF objs[reg[p]].initialized THEN "initialized" ELSE "created"]

\* the end of a call, by return or by exception
EndCall(t) ==
  /\ tpc' = [tpc EXCEPT ![t] = "idle"]
  /\ tcalls' = [tcalls EXCEPT ![t] = @ + 1]

\* call_local_llm / call_openai_llm / call_gemini_llm / call_llm:
\* service = LLMService(provider=...)
CallLLM(t) ==
  /\ tpc[t] = "idle"
  /\ tcalls[t] < MaxCalls
  /\ \E p \in Providers : tprovider' = [tprovider EXCEPT ![t] = p]
  /\ tpc' = [tpc EXCEPT ![t] = "new_lookup"]
  /\ tself' = [tself EXCEPT ![t] = 0]
  /\ UNCHANGED <<tcalls, cls_instances, heap, backends, uses, instances, run_vars, app_vars>>

\* __new__: if provider not in cls._instances
New_Lookup(t) ==
  /\ tpc[t] = "new_lookup"
  /\ tpc' = [tpc EXCEPT ![t] =
               IF cls_instances[tprovider[t]] = 0 THEN "new_register" ELSE "new_return"]
  /\ UNCHANGED <<tprovider, tself, tcalls, cls_instances, heap, backends, uses,
                 instances, run_vars, app_vars>>

\* __new__: cls._instances[provider] = super().__new__(cls)
New_Register(t) ==
  /\ tpc[t] = "new_register"
  /\ LET o == Cardinality({x \in ObjIds : heap[x].allocated}) + 1
     IN  /\ heap' = [heap EXCEPT ![o] = [Unallocated EXCEPT !.allocated = TRUE]]
         /\ cls_instances' = [cls_instances EXCEPT ![tprovider[t]] = o]
  /\ tpc' = [tpc EXCEPT ![t] = "new_return"]
  /\ instances' = RegistryView(cls_instances', heap')
  /\ UNCHANGED <<tprovider, tself, tcalls, backends, uses, run_vars, app_vars>>

\* __new__: return cls._instances[provider]
New_Return(t) ==
  /\ tpc[t] = "new_return"
  /\ tself' = [tself EXCEPT ![t] = cls_instances[tprovider[t]]]
  /\ tpc' = [tpc EXCEPT ![t] = "init_guard"]
  /\ UNCHANGED <<tprovider, tcalls, cls_instances, heap, backends, uses,
                 instances, run_vars, app_vars>>

\* __init__: if hasattr(self, 'initialized'): return; self.provider =
\* provider; self.llm = None
Init_Guard(t) ==
  /\ tpc[t] = "init_guard"
  /\ IF heap[tself[t]].initialized
     THEN /\ tpc' = [tpc EXCEPT ![t] = "generate"]
          /\ UNCHANGED heap
     ELSE /\ tpc' = [tpc EXCEPT ![t] = "init_backend"]
          /\ heap' = [heap EXCEPT ![tself[t]].llm = 0]
  /\ UNCHANGED <<tprovider, tself, tcalls, cls_instances, backends, uses,
                 instances, run_vars, app_vars>>

\* __init__: self._initialize_llm(), which constructs the backend of the
\* provider (self.llm, or self.gemini_client for gemini) or raises
Init_Backend(t) ==
  /\ tpc[t] = "init_backend"
  /\ \/ /\ tprovider[t] \in Supported
        /\ backends' = [backends EXCEPT ![tprovider[t]] = @ + 1]
        /\ heap' = IF tprovider[t] = "gemini"
                   THEN [heap EXCEPT ![tself[t]].gemini_client = backends'["gemini"]]
                   ELSE [heap EXCEPT ![tself[t]].llm = backends'[tprovider[t]]]
        /\ tpc' = [tpc EXCEPT ![t] = "init_done"]
        /\ UNCHANGED tcalls
     \/ /\ EndCall(t)
        /\ UNCHANGED <<backends, heap>>
  /\ UNCHANGED <<tprovider, tself, cls_instances, uses, instances, run_vars, app_vars>>

\* __init__: self.initialized = True
Init_Done(t) ==
  /\ tpc[t] = "init_done"
  /\ heap' = [heap EXCEPT ![tself[t]].initialized = TRUE]
  /\ tpc' = [tpc EXCEPT ![t] = "generate"]
  /\ instances' = RegistryView(cls_instances, heap')
  /\ UNCHANGED <<tprovider, tself, tcalls, cls_instances, backends, uses, run_vars, app_vars>>

\* the backend generate_response hands the prompt to
BackendOf(t) ==
  IF tprovider[t] = "gemini" THEN heap[tself[t]].gemini_client ELSE heap[tself[t]].llm

\* service.generate_response: the call of self.llm(...), of
\* self.gemini_client.generate_content(prompt) or of self.llm.invoke(...)
\* starts; no lock is taken before it.  A self.llm that is None raises.
Generate_Enter(t) ==
  /\ tpc[t] = "generate"
  /\ IF BackendOf(t) = 0
     THEN /\ EndCall(t)
          /\ UNCHANGED uses
     ELSE /\ tpc' = [tpc EXCEPT ![t] = "infer"]
          /\ uses' = uses \cup {[provider |-> tprovider[t], object |-> tself[t],
                                  backend |-> BackendOf(t)]}
          /\ UNCHANGED tcalls
  /\ UNCHANGED <<tprovider, tself, cls_instances, heap, backends, instances, run_vars, app_vars>>

\* the backend answers or raises: the call ends
Generate_Return(t) ==
  /\ tpc[t] = "infer"
  /\ EndCall(t)
  /\ UNCHANGED <<tprovider, tself, cls_instances, heap, backends, uses,
                 instances, run_vars, app_vars>>

\* queries that reached step 9 of their run, each calling llm_service.py
ServiceInit ==
  /\ pc = "generate"
  /\ query = <<"h","i">>
  /\ llm_provider = "local"
  /\ retriever = "ready"
  /\ instances = [p \in Providers |-> "absent"]
  /\ intent = "general"
  /\ use_chat_history = TRUE
  /\ use_product_resolution = FALSE
  /\ retrieved_docs = <<>>
  /\ chat_context = <<>>
  /\ product_context = <<>>
  /\ formatted_context = <<>>
  /\ specialized_prompt = <<>>
  /\ response = <<>>
  /\ formatted_response = EmptyDict
  /\ result = EmptyDict
  /\ exception = None
  /\ calls = <<>>
  /\ failures = {}
  /\ ServiceIdle
  /\ AppIdle

ServiceNext ==
  \E t \in Threads :
    \/ CallLLM(t)
    \/ New_Lookup(t)
    \/ New_Register(t)
    \/ New_Return(t)
    \/ Init_Guard(t)
    \/ Init_Backend(t)
    \/ Init_Done(t)
    \/ Generate_Enter(t)
    \/ Generate_Return(t)

ServiceSpec == ServiceInit /\ [][ServiceNext]_vars

-----------------------------------------------------------------------------
(* scripts/test_rag_system.py: the loop over the test questions *)

\* the most questions of a test file in the model
MaxQuestions == 2

\* the questions of a test file: a sales question, a banned one, a support one
ScriptQuestions ==
  { <<"p","r","i","c","e">>,
    <<"W","e","a","p","o","n","s">>,
    <<"h","e","l","p">> }

\* the state of a run before advanced_rag_query constructs its RAGSystem
FreshRun ==
  /\ retriever' = None
  /\ intent' = None
  /\ use_chat_history' = None
  /\ use_product_resolution' = None
  /\ retrieved_docs' = <<>>
  /\ chat_context' = <<>>
  /\ product_context' = <<>>
  /\ formatted_context' = <<>>
  /\ specialized_prompt' = <<>>
  /\ response' = <<>>
  /\ formatted_response' = EmptyDict
  /\ result' = EmptyDict
  /\ exception' = None
  /\ calls' = <<>>
  /\ failures' = {}

\* the next iteration of "for i, question in enumerate(questions, 1)", or the
\* end of the loop
NextQuestion ==
  /\ processed' = processed + 1
  /\ IF processed + 1 < MaxQuestions
     THEN /\ pc' = "construct"
          /\ query' \in ScriptQuestions
          /\ FreshRun
     ELSE /\ pc' = "summary"
          /\ UNCHANGED <<query, retriever, locals, result, exception, calls, failures>>
  /\ UNCHANGED <<llm_provider, instances, service_vars, db_vars, http_vars>>

\* result = advanced_rag_query(...) returned: if "error" not in result:
\* successful_responses += 1, else failed_responses += 1
RecordResult ==
  /\ pc = "done"
  /\ IF "error" \notin DOMAIN result
     THEN /\ successful_responses' = successful_responses + 1
          /\ UNCHANGED failed_responses
     ELSE /\ failed_responses' = failed_responses + 1
          /\ UNCHANGED successful_responses
  /\ composed_results' = composed_results + (IF DOMAIN result = ComposedResultKeys THEN 1 ELSE 0)
  /\ NextQuestion

\* except Exception as e: failed_responses += 1
RecordException ==
  /\ pc = "raised"
  /\ failed_responses' = failed_responses + 1
  /\ UNCHANGED <<successful_responses, composed_results>>
  /\ NextQuestion

\* test_rag_system(questions, llm_provider) on a fresh process
ScriptInit ==
  /\ pc = "construct"
  /\ query \in ScriptQuestions
  /\ llm_provider \in Providers
  /\ retriever = None
  /\ instances = [p \in Providers |-> "absent"]
  /\ intent = None
  /\ use_chat_history = None
  /\ use_product_resolution = None
  /\ retrieved_docs = <<>>
  /\ chat_context = <<>>
  /\ product_context = <<>>
  /\ formatted_context = <<>>
  /\ specialized_prompt = <<>>
  /\ response = <<>>
  /\ formatted_response = EmptyDict
  /\ result = EmptyDict
  /\ exception = None
  /\ calls = <<>>
  /\ failures = {}
  /\ ServiceIdle
  /\ AppIdle

ScriptNext ==
  \/ Construct
  \/ SafetyCheck
  \/ Classify
  \/ DecideContext
  \/ Retrieve
  \/ ResolveContext
  \/ AssembleContext
  \/ RoutePrompt
  \/ LookupProvider
  \/ InvokeGenerator
  \/ Extract
  \/ Compose
  \/ RecordResult
  \/ RecordException

ScriptSpec == ScriptInit /\ [][ScriptNext]_vars

-----------------------------------------------------------------------------
(* main.py and database/db_service.py: the chat endpoints *)

\* no query is in the pipeline
RunIdle ==
  /\ pc = "idle"
  /\ query = <<>>
  /\ llm_provider = "gemini"
  /\ retriever = None
  /\ instances = [p \in Providers |-> "absent"]
  /\ intent = None
  /\ use_chat_history = None
  /\ use_product_resolution = None
  /\ retrieved_docs = <<>>
  /\ chat_context = <<>>
  /\ product_context = <<>>
  /\ formatted_context = <<>>
  /\ specialized_prompt = <<>>
  /\ response = <<>>
  /\ formatted_response = EmptyDict
  /\ result = EmptyDict
  /\ exception = None
  /\ calls = <<>>
  /\ failures = {}

\* the most rows of chat_messages in the model
MaxStoredMessages == 4

\* get_chat_history(session_id, limit=50)
HistoryLimit == 50

Sessions == {"s1", "s2"}

ChatTexts == {"price?", "Weapons"}

\* what advanced_rag_query hands back to the endpoint: a composed, a blocked
\* or an error dict; RAGSystem(llm_provider) may raise instead
RagResults ==
  { [response |-> "We have **Latte** (ID: 12) - $4.50", intent |-> "sales",
     agent |-> get_agent_name("sales")],
    [response |-> BlockedResult.response, intent |-> BlockedResult.intent,
     agent |-> BlockedResult.agent],
    [response |-> ErrorResult(<<"quota exceeded">>).response, intent |-> "error",
     agent |-> ErrorResult(<<"quota exceeded">>).agent] }

\* ChatService.get_chat_history: SELECT * FROM chat_messages WHERE
\* session_id = ? ORDER BY created_at ASC LIMIT ?; rows are kept in the
\* order of their insertion
get_chat_history(rows, session_id) ==
  LET own == SelectSeq(rows, LAMBDA m : m.session_id = session_id)
  IN  SubSeq(own, 1, IF Len(own) < HistoryLimit THEN Len(own) ELSE HistoryLimit)

\* ChatService.add_chat_message: the INSERT, committed by execute_update
add_chat_message(rows, session_id, role, content, intent_, agent_) ==
  Append(rows, [session_id |-> session_id, role |-> role, content |-> content,
                intent |-> intent_, agent |-> agent_])

\* [{"role": msg["role"], "content": msg["content"]} for msg in db_messages]
RoleAndContent(db_messages) ==
  [i \in DOMAIN db_messages |->
     [role |-> db_messages[i].role, content |-> db_messages[i].content]]

\* the body shared by chat_endpoint and chatbot_endpoint.  The handlers are
\* coroutines that never await, so a request runs from its first statement
\* to its last without another request in between.
HandleChat(endpoint, session_id, message) ==
  /\ Len(chat_messages) + 2 <= MaxStoredMessages
  /\ LET db_messages == get_chat_history(chat_messages, session_id)
         with_user   == add_chat_message(chat_messages, session_id, "user",
                                         message, None, None)
     IN  /\ rag_chat_history' = RoleAndContent(db_messages)
         /\ request' = [endpoint |-> endpoint, session_id |-> session_id,
                        message |-> message,
                        stored_before |-> RoleAndContent(
                           SelectSeq(chat_messages,
                                     LAMBDA m : m.session_id = session_id))]
         /\ \/ \E r \in RagResults :
                 /\ chat_messages' = add_chat_message(with_user, session_id,
                                        "assistant", r.response, r.intent, r.agent)
                 /\ http_status' = 200
            \/ /\ chat_messages' = with_user
               /\ http_status' = 500
  /\ UNCHANGED <<run_vars, instances, service_vars, script_vars, users,
                 cart_items, added_since_set>>

\* POST /chat
chat_endpoint ==
  \E session_id \in Sessions, message \in ChatTexts :
     HandleChat("/chat", session_id, message)

\* POST /api/chatbot
chatbot_endpoint ==
  \E session_id \in Sessions, message \in ChatTexts :
     HandleChat("/api/chatbot", session_id, message)

ChatInit == RunIdle /\ ServiceIdle /\ AppIdle

ChatNext == chat_endpoint \/ chatbot_endpoint

ChatSpec == ChatInit /\ [][ChatNext]_vars

-----------------------------------------------------------------------------
(* main.py: the auth endpoints *)

Emails == {"ann@example.com", "bob@example.com"}

Passwords == {"pw1", "pw2"}

\* the values of secrets.token_hex(16) in the model
Salts == {"a1", "b2"}

\* hashlib.sha256((password + salt).encode()).hexdigest(): the digest stands
\* for the string it was computed from
Sha256(text) == <<"sha256", text>>

\* hash_password(password) with the salt drawn: f"{salt}${digest}"
hash_password(password, salt) == <<salt, "$", Sha256(<<password, salt>>)>>

\* verify_password(password, hashed_password)
verify_password(password, hashed_password) ==
  LET salt       == hashed_password[1]
      hash_value == hashed_password[3]
  IN  Sha256(<<password, salt>>) = hash_value

\* UserService.get_user_by_email: the rows with this email
get_user_by_email(email) == {u \in users : u.email = email}

\* "except Exception as e: raise HTTPException(status_code=500, ...)" around
\* the body of login and register: HTTPException is an Exception, so a status
\* raised inside the try block is caught here as well
ExceptException(raised_status) == IF raised_status = 0 THEN 200 ELSE 500

\* POST /api/v1/login
login ==
  \E email \in Emails, password \in Passwords :
     LET user == get_user_by_email(email)
         raised_status ==
           IF user = {} THEN 401
           ELSE IF ~ verify_password(password, (CHOOSE u \in user : TRUE).password_hash)
                THEN 401
                ELSE 0
     IN  /\ request' = [endpoint |-> "/api/v1/login", email |-> email,
                        raised |-> raised_status]
         /\ http_status' = ExceptException(raised_status)
         /\ UNCHANGED <<run_vars, instances, service_vars, script_vars, db_vars>>

\* POST /api/v1/register; create_user may raise when the database does
register ==
  \E email \in Emails, password \in Passwords, salt \in Salts,
     db_raises \in BOOLEAN :
     LET raised_status ==
           IF get_user_by_email(email) # {} THEN 409
           ELSE IF db_raises THEN 500
           ELSE 0
     IN  /\ users' = IF raised_status = 0
                     THEN users \cup {[email |-> email,
                                       password_hash |-> hash_password(password, salt)]}
                     ELSE users
         /\ request' = [endpoint |-> "/api/v1/register", email |-> email,
                        raised |-> raised_status]
         /\ http_status' = ExceptException(raised_status)
         /\ UNCHANGED <<run_vars, instances, service_vars, script_vars,
                        chat_messages, rag_chat_history, cart_items, added_since_set>>

AuthInit == RunIdle /\ ServiceIdle /\ AppIdle

AuthNext == login \/ register

AuthSpec == AuthInit /\ [][AuthNext]_vars

-----------------------------------------------------------------------------
(* database/db_service.py: the cart *)

\* the most rows of cart_items in the model
MaxCartRows == 2

\* the largest quantity of a request in the model
MaxQuantity == 2

\* SQL NULL in the integer column user_id
NULL == 0

UserIds == {NULL, 1}

\* product 1 exists, product 9 does not
ProductIds == {1, 9}

\* retail_price of a product in cents, or NULL when there is no such product
retail_price(product_id) ==
  IF product_id = 1 THEN 450 ELSE NULL

Sizes == {None, "M"}

\* the customizations of a request: None, {} and {"milk": "oat"}
Customizations == {None, "{}", "{\"milk\": \"oat\"}"}

\* json.dumps(customizations) if customizations else None
customizations_json(customizations) ==
  IF customizations \in {None, "{}"} THEN None ELSE customizations

\* "user_id = ?": a comparison with NULL is never true
SqlEquals(column, param) == column # NULL /\ param # NULL /\ column = param

\* "(col IS ? OR col = ?)" on a text column, whose NULL is written None
SqlIsOrEquals(column, param) == column = param

\* the key a cart row is meant to be unique for
KeyOf(row) == <<row.user_id, row.product_id, row.selected_size, row.customizations>>

CartKeys == UserIds \X ProductIds \X Sizes \X {None, "{\"milk\": \"oat\"}"}

\* the quantity a key should hold: what was added since its row was created
\* or last set
Expected(key) ==
  IF key \in DOMAIN added_since_set THEN added_since_set[key] ELSE 0

SetExpected(key, quantity) ==
  [k \in DOMAIN added_since_set \cup {key} |->
     IF k = key THEN quantity ELSE added_since_set[k]]

\* CartService.add_to_cart behind POST /api/v1/cart/
add_to_cart ==
  \E user_id \in UserIds, product_id \in ProductIds, quantity \in 1..MaxQuantity,
     selected_size \in Sizes, customizations \in Customizations :
     LET unit_price == retail_price(product_id)
         cjson      == customizations_json(customizations)
         existing   == {i \in DOMAIN cart_items :
                          /\ SqlEquals(cart_items[i].user_id, user_id)
                          /\ cart_items[i].product_id = product_id
                          /\ SqlIsOrEquals(cart_items[i].selected_size, selected_size)
                          /\ SqlIsOrEquals(cart_items[i].customizations, cjson)}
         key        == <<user_id, product_id, selected_size, cjson>>
     IN  /\ IF unit_price = NULL
            THEN /\ http_status' = 404
                 /\ UNCHANGED <<cart_items, added_since_set>>
            ELSE IF existing # {}
            THEN LET cart_item_id == CHOOSE i \in existing : \A j \in existing : i <= j
                     new_quantity == cart_items[cart_item_id].quantity + quantity
                 IN  /\ new_quantity <= MaxQuantity + 1
                     /\ cart_items' = [cart_items EXCEPT
                                         ![cart_item_id].quantity = new_quantity,
                                         ![cart_item_id].total_price = unit_price * new_quantity]
                     /\ added_since_set' = SetExpected(key, Expected(key) + quantity)
                     /\ http_status' = 200
            ELSE /\ Len(cart_items) < MaxCartRows
                 /\ cart_items' = Append(cart_items,
                                    [user_id |-> user_id, product_id |-> product_id,
                                     quantity |-> quantity,
                                     selected_size |-> selected_size,
                                     customizations |-> cjson,
                                     unit_price |-> unit_price,
                                     total_price |-> unit_price * quantity])
                 /\ added_since_set' = SetExpected(key, Expected(key) + quantity)
                 /\ http_status' = 200
         /\ UNCHANGED <<run_vars, instances, service_vars, script_vars,
                        chat_messages, rag_chat_history, users, request>>

\* CartService.update_cart_item_quantity(cart_item_id, quantity)
update_cart_item_quantity ==
  \E cart_item_id \in 1..MaxCartRows, quantity \in 1..MaxQuantity :
     /\ IF cart_item_id \notin DOMAIN cart_items
        THEN UNCHANGED <<cart_items, added_since_set>>
        ELSE LET item == cart_items[cart_item_id]
             IN  /\ cart_items' = [cart_items EXCEPT
                                     ![cart_item_id].quantity = quantity,
                                     ![cart_item_id].total_price = item.unit_price * quantity]
                 /\ added_since_set' = SetExpected(KeyOf(item), quantity)
     /\ UNCHANGED <<run_vars, instances, service_vars, script_vars,
                    chat_messages, rag_chat_history, users, http_vars>>

CartInit == RunIdle /\ ServiceIdle /\ AppIdle

CartNext == add_to_cart \/ update_cart_item_quantity

CartSpec == CartInit /\ [][CartNext]_vars

-----------------------------------------------------------------------------
(* Properties *)

RetrieverInvoked == \E i \in DOMAIN calls : calls[i].op = "retriever"

GeneratorInvoked == \E i \in DOMAIN calls : calls[i].op = "generator"

\* the Generator was called and returned a text
GeneratorSucceeded == GeneratorInvoked /\ "generator" \notin FailedStages

\* C1: a query whose lower-cased text contains a banned term, whatever else
\* it contains, never gets past the safety check: neither the Retriever nor a
\* Generator is invoked in its run, and the result returned for it has intent
\* blocked, the fixed refusal text, empty sources and empty products.
C1_BlockedShortCircuit ==
  AnyIn(banned_words, Lower(query)) =>
    /\ pc \in {"construct", "safety", "done", "raised"}
    /\ ~ RetrieverInvoked
    /\ ~ GeneratorInvoked
    /\ pc = "done" =>
         /\ result.intent = "blocked"
         /\ result.response = BlockedMessage
         /\ result.sources = <<>>
         /\ result.products = <<>>

\* a blocked query that also holds a sales keyword
C1_Witness ==
  /\ pc = "done"
  /\ AnyIn(banned_words, Lower(query))
  /\ AnyIn(sales_keywords, Lower(query))
  /\ result.intent = "blocked"

\* C2: the classified intent is decided by the lower-cased query alone, in
\* the priority sales > refund > support > general: sales when a sales
\* keyword is a substring, else refund when a refund keyword is, else support
\* when a support keyword is, else general.
C2_ClassifyPriority ==
  intent # None =>
    LET q  == Lower(query)
        sa == \E kw \in sales_keywords : Contains(q, kw)
        re == \E kw \in refund_keywords : Contains(q, kw)
        su == \E kw \in support_keywords : Contains(q, kw)
    IN  /\ sa => intent = "sales"
        /\ (~ sa /\ re) => intent = "refund"
        /\ (~ sa /\ ~ re /\ su) => intent = "support"
        /\ (~ sa /\ ~ re /\ ~ su) => intent = "general"

\* a query with a sales and a refund keyword, classified sales
C2_Witness ==
  /\ intent = "sales"
  /\ AnyIn(sales_keywords, Lower(query))
  /\ AnyIn(refund_keywords, Lower(query))

\* C3: when the Retriever failed during the run and the Generator returned a
\* text, the result is not an error result: its intent is the classified
\* intent and its sources are empty.
C3_DegradedRetrieval ==
  (pc = "done" /\ "retriever" \in FailedStages /\ GeneratorSucceeded) =>
     /\ result.intent # "error"
     /\ result.intent = intent
     /\ result.sources = <<>>

\* C4 (as amended): when the Generator raises, the result has intent error,
\* its text is the fixed apology, which never holds the error detail, and the
\* error field is present and equals str(e) of the exception, which is empty
\* when the exception carries no message.
C4_GeneratorFailure ==
  \A f \in failures :
    f.stage = "generator" =>
      /\ pc = "done"
      /\ result.intent = "error"
      /\ result.response = ApologyMessage
      /\ "error" \in DOMAIN result
      /\ result.error = f.detail
      /\ f.detail # <<>> => ~ Contains(result.response, f.detail)

\* a Generator failure with a message
C4_Witness ==
  /\ pc = "done"
  /\ \E f \in failures : f.stage = "generator" /\ f.detail # <<>>
  /\ result.intent = "error"

\* C4 as stated: when the Generator raises, the result has intent error, the
\* fixed apology as text, and a non-empty error field.
C4_Original ==
  \A f \in failures :
    f.stage = "generator" =>
      /\ result.intent = "error"
      /\ result.response = ApologyMessage
      /\ "error" \in DOMAIN result
      /\ result.error # <<>>

\* the stages of generate_response behind the safety check and classification
LaterStages == {"retriever", "provider_construction", "generator", "extraction"}

C6_ConstructionFailureReturned ==
  "provider_construction" \in FailedStages =>
    /\ pc = "done"
    /\ exception = None
    /\ result.intent = "error"
    /\ result.response = ApologyMessage
    /\ result.error = ConfigError(llm_provider)
    /\ ~ GeneratorInvoked

\* a missing API key of a supported provider, returned as an error result
C6_Witness ==
  /\ pc = "done"
  /\ "provider_construction" \in FailedStages
  /\ llm_provider = "gemini"
  /\ result.error = ConfigError("gemini")

\* C6 as stated: a failed provider construction is raised to the caller and
\* is not turned into a result with intent error.
C6_Original ==
  "provider_construction" \in FailedStages =>
    /\ pc = "raised"
    /\ exception = ConfigError(llm_provider)
    /\ result = EmptyDict

\* C7: whatever text the Generator returned for a sales query, the result
\* keeps intent sales and extraction does not fail the run.
C7_MalformedMarkerKeepsSales ==
  (pc = "done" /\ intent = "sales" /\ GeneratorSucceeded) =>
     /\ "extraction" \notin FailedStages
     /\ result.intent = "sales"

\* C8: the products of a sales result are one entity per match of the marker
\* pattern in the generated text, in order and without deduplication; each
\* entity's id is the id of its marker, and its buy_link and image_url are
\* /product/<id> and /images/product_<id>.jpg of that id.
C8_OneEntityPerMatch ==
  (pc = "done" /\ intent = "sales" /\ GeneratorSucceeded) =>
     LET ms == FindAll(response)
     IN  /\ "products" \in DOMAIN result
         /\ Len(result.products) = Len(ms)
         /\ \A k \in DOMAIN ms :
              /\ result.products[k].id = Strip(ms[k].id)
              /\ result.products[k].buy_link = <<"/product/">> \o Strip(ms[k].id)
              /\ result.products[k].image_url =
                   <<"/images/product_">> \o Strip(ms[k].id) \o <<".jpg">>

\* C9 (as amended): for a query of at most 3 blank-delimited tokens, a
\* composed result reports chat_history_used = true; a blocked or an error
\* result carries no decision flag at all.
C9_ShortQueryUsesHistory ==
  (pc = "done" /\ SplitLen(query) <= 3) =>
     IF result.intent \in {"blocked", "error"}
     THEN "chat_history_used" \notin DOMAIN result
     ELSE result.chat_history_used = TRUE

\* a composed result of a query of exactly three tokens whose intent is not
\* refund: only the token count asks for the history
C9_Witness ==
  /\ pc = "done"
  /\ SplitLen(query) = 3
  /\ result.intent \in {"sales", "support"}
  /\ ~ AnyIn(context_keywords, Lower(query))
  /\ result.chat_history_used = TRUE

\* C9 as stated: every result of a query of at most 3 tokens reports
\* used_history = true.
C9_Original ==
  (pc = "done" /\ SplitLen(query) <= 3) =>
     /\ "chat_history_used" \in DOMAIN result
     /\ result.chat_history_used = TRUE

ComposedKeys ==
  {"response", "intent", "agent", "sources", "context", "products", "metadata",
   "chat_history_used", "product_context_used", "chat_context_actual",
   "product_context_actual", "intelligent_decisions"}

BlockedKeys ==
  {"response", "intent", "agent", "sources", "products", "metadata", "error"}

ErrorKeys == {"response", "intent", "agent", "sources", "error"}

\* the fields of the OrchestrationResult: text, intent, agent label, sources,
\* products and the two decision flags
FullStructure ==
  {"response", "intent", "agent", "sources", "products",
   "chat_history_used", "product_context_used"}

\* C10 (as amended): a composed result carries the full structure (text,
\* intent, agent label, sources, products, both decision flags); a blocked
\* result carries text, intent, agent label, sources and products but no
\* decision flag; an error result carries text, intent, agent label, sources
\* and the error detail, but neither products nor a decision flag.
C10_ResultShape ==
  pc = "done" =>
    /\ result.intent = "blocked" => DOMAIN result = BlockedKeys
    /\ result.intent = "error" => DOMAIN result = ErrorKeys
    /\ result.intent \notin {"blocked", "error"} =>
         /\ DOMAIN result = ComposedKeys
         /\ FullStructure \subseteq DOMAIN result

\* an error result, without products
C10_Witness ==
  /\ pc = "done"
  /\ result.intent = "error"
  /\ "products" \notin DOMAIN result

\* C10 as stated: every returned result carries the full structure.
C10_Original == pc = "done" => FullStructure \subseteq DOMAIN result

-----------------------------------------------------------------------------
(* Stage order, agent labels, retrieval and generation counts *)

\* the stages of a run in the order of the code; "resolve" is the conditional
\* history and product resolution between Retrieve and AssembleContext,
\* "generate" and "invoke" are the two halves of Generate
StageOrder ==
  <<"safety", "classify", "decide", "retrieve", "resolve", "assemble", "route",
    "generate", "invoke", "extract", "compose">>

Stages == Range(StageOrder)

RankOf(stage) == CHOOSE i \in DOMAIN StageOrder : StageOrder[i] = stage

\* the positions of the calls of one collaborator in the run
CallsOf(op) == {i \in DOMAIN calls : calls[i].op = op}

IsBlocked(r) == r.intent = "blocked" /\ r.agent = "Safety Filter"

IsError(r) == r.intent = "error" /\ "error" \in DOMAIN r

IsComposed(r) ==
  r.intent \in {"sales", "refund", "support", "general"} /\ DOMAIN r = ComposedKeys

\* one step of a run: the next stage of the fixed order, or the end of the run
StageStep ==
  \/ pc' = pc
  \/ pc = "construct" /\ pc' \in {"safety", "raised"}
  \/ pc \in Stages /\ pc' \in Stages /\ RankOf(pc') = RankOf(pc) + 1
  \/ pc = "invoke" /\ pc' = "waiting"
  \/ /\ pc \in Stages
     /\ pc' = "done"
     /\ IsBlocked(result') <=> pc = "safety"
     /\ IsComposed(result') <=> pc = "compose"
     /\ IsError(result') <=> pc \notin {"safety", "compose"}

\* retrieval is complete before the prompt is rendered, and the prompt is
\* rendered before generation starts
RetrievalFirst ==
  /\ \A i \in CallsOf("prompt") : \E j \in CallsOf("retriever") : j < i
  /\ \A i \in CallsOf("generator") : \E j \in CallsOf("prompt") : j < i
  /\ pc \in Stages /\ RankOf(pc) > RankOf("retrieve") => CallsOf("retriever") # {}
  /\ pc \in Stages /\ RankOf(pc) > RankOf("route") => CallsOf("prompt") # {}

\* a finished run is in exactly one of the terminal states
OneTerminal ==
  pc = "done" =>
    /\ IsBlocked(result) \/ IsComposed(result) \/ IsError(result)
    /\ ~ (IsBlocked(result) /\ IsComposed(result))
    /\ ~ (IsBlocked(result) /\ IsError(result))
    /\ ~ (IsComposed(result) /\ IsError(result))

C14_BoundedWait == pc = "waiting" => ENABLED Next

\* C18 (as amended): the agent label of a composed result is the fixed
\* function of its intent (sales: Sales Specialist, refund: Customer Service
\* Agent, support: Support Agent, general: Coffee Assistant); a blocked result
\* is labelled Safety Filter and an error result Error Handler; the default
\* label Assistant appears in no result.
C18_AgentLabel ==
  pc = "done" =>
    /\ result.intent = "sales"   => result.agent = "Sales Specialist"
    /\ result.intent = "refund"  => result.agent = "Customer Service Agent"
    /\ result.intent = "support" => result.agent = "Support Agent"
    /\ result.intent = "general" => result.agent = "Coffee Assistant"
    /\ result.intent = "blocked" => result.agent = "Safety Filter"
    /\ result.intent = "error"   => result.agent = "Error Handler"
    /\ result.intent \in {"sales", "refund", "support", "general", "blocked", "error"}
    /\ result.agent # "Assistant"

\* a refund result, labelled Customer Service Agent
C18_Witness ==
  /\ pc = "done"
  /\ result.intent = "refund"
  /\ result.agent = "Customer Service Agent"

\* C18 as stated: in every result the agent label is the label of the table
\* for the result's intent, and Assistant for every intent not in the table.
C18_Original ==
  pc = "done" =>
    result.agent =
      CASE result.intent = "sales"   -> "Sales Specialist"
        [] result.intent = "refund"  -> "Customer Service Agent"
        [] result.intent = "support" -> "Support Agent"
        [] result.intent = "general" -> "Coffee Assistant"
        [] OTHER                     -> "Assistant"

\* C19: in every run of generate_response that got past the safety check and
\* through the retrieval stage, the Retriever was invoked exactly once, with
\* k = 5, whatever the intent and the two context decisions are, and before
\* the history and the product resolution.
C19_RetrieveOnce ==
  LET past == \/ pc \in Stages /\ RankOf(pc) > RankOf("retrieve")
              \/ pc = "waiting"
              \/ pc = "done" /\ result.intent # "blocked"
  IN  /\ past =>
        /\ Cardinality(CallsOf("retriever")) = 1
        /\ \A i \in CallsOf("retriever") :
              /\ calls[i].k = 5
              /\ \A j \in CallsOf("history") \cup CallsOf("resolver") : i < j
      /\ ~ past => CallsOf("retriever") = {}

\* a run of a general query that needed neither history nor product context
\* and called the Retriever once
C19_Witness ==
  /\ pc = "done"
  /\ result.intent = "general"
  /\ result.chat_history_used = FALSE
  /\ result.product_context_used = FALSE
  /\ Cardinality(CallsOf("retriever")) = 1

\* C20: the Generator is invoked at most once in a run; after a failure of
\* the Generator the run has ended with the error result, and the failed call
\* is the last call of the run: no provider is called again.
C20_NoRetry ==
  /\ Cardinality(CallsOf("generator")) <= 1
  /\ "generator" \in FailedStages =>
        /\ pc = "done"
        /\ IsError(result)
        /\ calls[Len(calls)].op = "generator"

\* a run that ended with the error result after one failed Generator call
C20_Witness ==
  /\ pc = "done"
  /\ "generator" \in FailedStages
  /\ Cardinality(CallsOf("generator")) = 1
  /\ IsError(result)

-----------------------------------------------------------------------------
(* The registry and the local backend under concurrent callers *)

\* C12: the backend of each provider is constructed at most once, and all
\* inference calls made with the same provider identifier use the same
\* LLMService object and the same backend, also when the calls run
\* concurrently.
C12_InitialisedOnce ==
  /\ \A p \in Providers : backends[p] <= 1
  /\ \A u1, u2 \in uses :
        u1.provider = u2.provider =>
           (u1.object = u2.object /\ u1.backend = u2.backend)

\* C13: at no time are two callers inside the inference call of the local
\* backend.
C13_LocalMutex ==
  Cardinality({t \in Threads : tpc[t] = "infer" /\ tprovider[t] = "local"}) <= 1

-----------------------------------------------------------------------------
(* The context assembler and the two heuristics *)

\* the positions of a header in an assembled context
HeaderAt(ctx, header) == {i \in DOMAIN ctx : ctx[i] = header}

\* the text t stands in ctx right behind position i
FollowedBy(ctx, i, t) ==
  /\ i + Len(t) <= Len(ctx)
  /\ SubSeq(ctx, i + 1, i + Len(t)) = t

\* C15: the assembled context holds the header Retrieved Information: exactly
\* when there are retrieved passages, Previous Conversation: exactly when the
\* history text is not empty and Product Information: exactly when the product
\* text is not empty, each at most once, in the order retrieved, history,
\* product, each followed on the next line by its content; with retrieved
\* passages alone the context is the Retrieved Information: header and the
\* passages, one per line.
C15_ContextSections ==
  pc = "route" =>
    LET r == HeaderAt(formatted_context, "Retrieved Information:")
        h == HeaderAt(formatted_context, "Previous Conversation:")
        p == HeaderAt(formatted_context, "Product Information:")
    IN  /\ (r # {}) <=> (retrieved_docs # <<>>)
        /\ (h # {}) <=> (chat_context # <<>>)
        /\ (p # {}) <=> (product_context # <<>>)
        /\ Cardinality(r) <= 1 /\ Cardinality(h) <= 1 /\ Cardinality(p) <= 1
        /\ \A i \in r : \A j \in h \cup p : i < j
        /\ \A i \in h : \A j \in p : i < j
        /\ \A i \in r :
              FollowedBy(formatted_context, i, <<"\n">> \o Join(<<"\n">>, retrieved_docs))
        /\ \A i \in h : FollowedBy(formatted_context, i, <<"\n">> \o chat_context)
        /\ \A i \in p : FollowedBy(formatted_context, i, <<"\n">> \o product_context)
        /\ (retrieved_docs # <<>> /\ chat_context = <<>> /\ product_context = <<>>) =>
              formatted_context =
                <<"Retrieved Information:", "\n">> \o Join(<<"\n">>, retrieved_docs)

\* a context assembled from two passages and a product text, without history:
\* the history section is left out and the product section comes last
C15_Witness ==
  /\ pc = "route"
  /\ Len(retrieved_docs) = 2
  /\ chat_context = <<>>
  /\ product_context # <<>>
  /\ HeaderAt(formatted_context, "Previous Conversation:") = {}
  /\ \E i \in HeaderAt(formatted_context, "Retrieved Information:") :
        \E j \in HeaderAt(formatted_context, "Product Information:") : i < j

\* C16: the history decision is true exactly when the query has at most 3
\* whitespace-delimited tokens, or its lower-cased text contains a
\* continuation keyword, or the intent is refund.
C16_UseHistoryExactly ==
  pc = "retrieve" =>
    (use_chat_history <=>
       \/ SplitLen(query) <= 3
       \/ \E kw \in context_keywords : Contains(Lower(query), kw)
       \/ intent = "refund")

\* a query of more than 3 tokens whose only reason for the history is a
\* capitalised continuation keyword
C16_Witness ==
  /\ pc = "retrieve"
  /\ SplitLen(query) > 3
  /\ intent # "refund"
  /\ ~ AnyIn(context_keywords, query)
  /\ AnyIn(context_keywords, Lower(query))
  /\ use_chat_history = TRUE

\* the reference keywords as the claim reads them: in any letter case
ReferencePhrases == {Lower(kw) : kw \in reference_keywords}

\* C17: the product decision is true exactly when the lower-cased query
\* contains a deictic or comparison keyword, or the intent is sales or refund
\* and the query contains, in any letter case, one of the reference phrases
\* this product, that coffee, the beans, same order, my order, my coffee, my
\* purchase, what I bought.
C17_ResolveProductExactly ==
  pc = "retrieve" =>
    (use_product_resolution <=>
       \/ \E kw \in product_context_keywords : Contains(Lower(query), kw)
       \/ /\ intent \in {"sales", "refund"}
          /\ \E kw \in ReferencePhrases : Contains(Lower(query), kw))

-----------------------------------------------------------------------------
(* Generation parameters, extraction, decision flags, prompt routing *)

\* C21: every Generator call, whatever the provider, is made under the
\* process-wide maximum output length and sampling temperature.
C21_UniformParameters ==
  \A i \in CallsOf("generator") :
    /\ DOMAIN calls[i].params = {"max_tokens", "temperature"}
    /\ calls[i].params.max_tokens = MAX_TOKENS
    /\ calls[i].params.temperature = TEMPERATURE

ClassifiedIntents == {"sales", "refund", "support", "general"}

\* the products a caller reads from a result: result.get("products", [])
ProductsOf(r) == IF "products" \in DOMAIN r THEN r.products ELSE <<>>

\* C22: extraction runs only for intent sales.  Every result whose intent is
\* not sales holds no product, also when the generated text holds
\* well-formed markers, and a composed result of such a run has no product
\* metadata either.
C22_ExtractionOnlyForSales ==
  (pc = "done" /\ result.intent # "sales") =>
     /\ ProductsOf(result) = <<>>
     /\ IsComposed(result) => (result.products = <<>> /\ result.metadata = EmptyDict)

\* a composed result of a query that is not a sales query, whose generated
\* text holds a well-formed marker
C22_Witness ==
  /\ pc = "done"
  /\ IsComposed(result)
  /\ result.intent \in {"refund", "support", "general"}
  /\ FindAll(response) # <<>>
  /\ result.products = <<>>

\* C23: both decisions are made for every query that passed the safety
\* check, before retrieval, and the flags of the composed result are the
\* outputs of the two predicates on the query and its classified intent,
\* whether or not any history or product text was obtained.
C23_FlagsArePredicates ==
  /\ (pc \in Stages /\ RankOf(pc) > RankOf("decide")) \/ pc = "waiting"
       => /\ use_chat_history = should_use_chat_history(query, intent)
          /\ use_product_resolution = should_resolve_product_context(query, intent)
  /\ (pc = "done" /\ IsComposed(result)) =>
        /\ result.chat_history_used = should_use_chat_history(query, result.intent)
        /\ result.product_context_used =
             should_resolve_product_context(query, result.intent)
  /\ (pc = "done" /\ ~ IsBlocked(result)) =>
        (use_chat_history \in BOOLEAN /\ use_product_resolution \in BOOLEAN)

\* a composed result that reports the history as used although no history
\* text was obtained
C23_Witness ==
  /\ pc = "done"
  /\ IsComposed(result)
  /\ result.chat_history_used = TRUE
  /\ result.chat_context_actual = FALSE

\* C24: a prompt is rendered at most once in a run, only with one of the
\* intents sales, refund, support, general, never for a query the safety
\* check rejects, and never after the run has failed: a run that ended
\* blocked holds no prompt and no Generator call, and every failure that ends
\* a run comes after its prompt.
C24_RouterIntents ==
  /\ Cardinality(CallsOf("prompt")) <= 1
  /\ \A i \in CallsOf("prompt") :
        /\ calls[i].intent \in ClassifiedIntents
        /\ calls[i].intent = intent
        /\ is_safe_query(query)
  /\ (pc = "done" /\ IsBlocked(result)) =>
        (CallsOf("prompt") = {} /\ CallsOf("generator") = {})
  /\ ~ is_safe_query(query) => (CallsOf("prompt") = {} /\ CallsOf("generator") = {})
  /\ (pc = "done" /\ IsError(result)) =>
        /\ CallsOf("prompt") # {}
        /\ \A i \in DOMAIN calls : calls[i].op \in {"generator"} =>
              \E j \in CallsOf("prompt") : j < i

\* a run that rendered the support prompt and then failed in the Generator
C24_Witness ==
  /\ pc = "done"
  /\ IsError(result)
  /\ \E i \in CallsOf("prompt") : calls[i].intent = "support"
  /\ "generator" \in FailedStages

\* the context format_rag_context builds from passages alone
RetrievedSection(docs) ==
  IF docs = <<>> THEN <<>> ELSE Join(<<"\n">>, <<<<"Retrieved Information:">>>> \o docs)

\* the run has completed the stage
PastStage(stage) ==
  \/ pc \in Stages /\ RankOf(pc) > RankOf(stage)
  \/ pc = "waiting"
  \/ pc = "done" /\ ~ IsBlocked(result) /\ "generator" \in {calls[i].op : i \in DOMAIN calls}

\* C26: whatever the two decision flags are, the history text and the product
\* text of a run are empty, the assembled context holds no Previous
\* Conversation and no Product Information header and is exactly the retrieved
\* section (empty when nothing was retrieved), and the composed result reports
\* chat_context_actual and product_context_actual as false.
C26_StubsLeaveContextBare ==
  /\ PastStage("resolve") => (chat_context = <<>> /\ product_context = <<>>)
  /\ PastStage("assemble") =>
        /\ HeaderAt(formatted_context, "Previous Conversation:") = {}
        /\ HeaderAt(formatted_context, "Product Information:") = {}
        /\ formatted_context = RetrievedSection(retrieved_docs)
  /\ (pc = "done" /\ IsComposed(result)) =>
        /\ result.chat_context_actual = FALSE
        /\ result.product_context_actual = FALSE
        /\ result.context = RetrievedSection(result.sources)

\* a composed result of a run in which both decisions were true and both
\* stubs were called, with a passage retrieved
C26_Witness ==
  /\ pc = "done"
  /\ IsComposed(result)
  /\ result.chat_history_used
  /\ result.product_context_used
  /\ CallsOf("history") # {}
  /\ CallsOf("resolver") # {}
  /\ result.sources # <<>>
  /\ HeaderAt(result.context, "Retrieved Information:") # {}
  /\ result.chat_context_actual = FALSE

-----------------------------------------------------------------------------
(* The error field and the tallies of the test script *)

\* C25: a result carries an error key exactly when the run ended blocked or
\* in error; a composed result has none.  The results counted as successful
\* are exactly the composed ones, and successful plus failed is the number of
\* questions processed.
C25_ErrorKeyAndTallies ==
  /\ pc = "done" =>
        /\ ("error" \in DOMAIN result) <=> (result.intent \in {"blocked", "error"})
        /\ IsComposed(result) \/ IsBlocked(result) \/ IsError(result)
        /\ IsComposed(result) => "error" \notin DOMAIN result
  /\ successful_responses + failed_responses = processed
  /\ successful_responses = composed_results

\* a test run that counted a composed result as successful and then arrived
\* at a blocked result for its second question
C25_Witness ==
  /\ pc = "done"
  /\ IsBlocked(result)
  /\ processed = 1
  /\ successful_responses = 1
  /\ composed_results = 1

-----------------------------------------------------------------------------
(* Initialisation and inference under overlapping callers *)

\* C27: under any interleaving of calls for the same provider, a caller that
\* is about to run generate_response holds an instance whose initialisation
\* completed and whose backend handle is set.
C27_GenerateOnInitialised ==
  \A t \in Threads :
    tpc[t] = "generate" =>
       /\ heap[tself[t]].initialized
       /\ BackendOf(t) # 0

-----------------------------------------------------------------------------
(* The endpoints of main.py and the tables behind them *)

\* the stored messages of one session, oldest first
StoredOf(session_id) ==
  SelectSeq(chat_messages, LAMBDA m : m.session_id = session_id)

\* C28: after any sequence of /chat and /api/chatbot requests, succeeded or
\* failed, the stored messages of every session alternate user, assistant,
\* each user message followed by the reply to it, and the history handed to
\* the orchestrator is what the session had stored before the request's user
\* message.
C28_Alternation ==
  /\ \A s \in Sessions :
        /\ Len(StoredOf(s)) % 2 = 0
        /\ \A i \in DOMAIN StoredOf(s) :
              StoredOf(s)[i].role = IF i % 2 = 1 THEN "user" ELSE "assistant"
  /\ request.endpoint \in {"/chat", "/api/chatbot"} =>
        rag_chat_history = request.stored_before

\* C29: login with an unknown email or a wrong password answers 401,
\* register with a registered email answers 409, and 500 is answered only
\* for an unexpected failure.
C29_ClientErrorStatus ==
  request.endpoint \in {"/api/v1/login", "/api/v1/register"} =>
     http_status = IF request.raised = 0 THEN 200 ELSE request.raised

=============================================================================
